---- MODULE Spec2Model ----
(***************************************************************************)
(* A model of Wordle SolvRS (Teeto44/wordle_solvrs): the feedback model,   *)
(* the constraint accumulation (apply_feedback), the candidate filter      *)
(* (filter_candidates), the guess selector (select_guess), the oracle      *)
(* (generate_feedback), the history replay (load_state), the interactive   *)
(* prompt (manual_feedback) and the round loop (solve).                    *)
(*                                                                         *)
(* Conventions.  A char is a one-character string; a &str / String is the  *)
(* sequence of its chars.  Option<T> is a sequence of length at most one:  *)
(* None is << >> and Some(x) is <<x>>.  A HashMap is a function whose      *)
(* DOMAIN is the set of its keys; a HashSet is a set.  Rust indexes from   *)
(* 0, sequences here from 1: a position p of the source is p + 1 here,     *)
(* also inside the (char, position) pairs of `yellow`.                     *)
(***************************************************************************)
EXTENDS Integers, Sequences, FiniteSets, TLC

----------------------------------------------------------------------------
(* Option<T> *)

None == << >>

Some(x) == <<x>>

IsSome(o) == Len(o) = 1

Unwrap(o) == o[1]

----------------------------------------------------------------------------
(* Program constants *)

\* core.rs: pub const DEFAULT_FIRST_WORD = "reads"
DEFAULT_FIRST_WORD == <<"r", "e", "a", "d", "s">>

\* The length of [Feedback; 5] and [Option<char>; 5]
WordLen == 5

\* The length load_state requires of an entry: guess (5) + feedback (5)
EntryLen == 10

\* enum Feedback
Green == "Green"

Yellow == "Yellow"

Gray == "Gray"

Feedback == {Green, Yellow, Gray}

----------------------------------------------------------------------------
(* Characters and strings *)

UpperCase == <<"A", "B", "C", "D", "E", "F", "G", "H", "I", "J", "K", "L", "M",
               "N", "O", "P", "Q", "R", "S", "T", "U", "V", "W", "X", "Y", "Z">>

LowerCase == <<"a", "b", "c", "d", "e", "f", "g", "h", "i", "j", "k", "l", "m",
               "n", "o", "p", "q", "r", "s", "t", "u", "v", "w", "x", "y", "z">>

\* char::to_ascii_lowercase
ToAsciiLowercase(c) ==
    IF \E k \in DOMAIN UpperCase : UpperCase[k] = c
    THEN LowerCase[CHOOSE k \in DOMAIN UpperCase : UpperCase[k] = c]
    ELSE c

\* char::is_whitespace, on the characters the inputs of the model use
WhiteSpace == {" ", "\t", "\n", "\r"}

RECURSIVE TrimStart(_)
TrimStart(s) ==
    IF s # << >> /\ Head(s) \in WhiteSpace THEN TrimStart(Tail(s)) ELSE s

RECURSIVE TrimEnd(_)
TrimEnd(s) ==
    IF s # << >> /\ s[Len(s)] \in WhiteSpace
    THEN TrimEnd(SubSeq(s, 1, Len(s) - 1))
    ELSE s

\* str::trim
Trim(s) == TrimEnd(TrimStart(s))

\* str::split(sep): the pieces between the separators, empty pieces included
\* ("".split(',') yields one empty piece).  `piece` is the piece being read.
RECURSIVE SplitFrom(_, _, _)
SplitFrom(s, sep, piece) ==
    IF s = << >> THEN <<piece>>
    ELSE IF Head(s) = sep THEN <<piece>> \o SplitFrom(Tail(s), sep, << >>)
    ELSE SplitFrom(Tail(s), sep, Append(piece, Head(s)))

Split(s, sep) == SplitFrom(s, sep, << >>)

\* candidate_chars.contains(&c)
Contains(chars, c) == \E k \in DOMAIN chars : chars[k] = c

\* chars.iter().filter(|&&x| x == c).count()
CountChar(chars, c) == Cardinality({k \in DOMAIN chars : chars[k] = c})

----------------------------------------------------------------------------
(* core.rs *)

\* FromChar without to_ascii_lowercase
FromCharCaseSensitive(c) ==
    CASE c = "g" -> Some(Green)
      [] c = "y" -> Some(Yellow)
      [] c = "b" -> Some(Gray)
      [] OTHER -> None

\* Feedback::from_char
FromChar(c) ==
    LET lower == ToAsciiLowercase(c)
    IN  CASE lower = "g" -> Some(Green)
          [] lower = "y" -> Some(Yellow)
          [] lower = "b" -> Some(Gray)
          [] OTHER -> None

Vowels == {"a", "e", "i", "o", "u", "y"}

\* select_guess: the score of one word (unique_letters + unique_vowels)
Score(word) ==
    LET unique_letters == Cardinality({word[k] : k \in DOMAIN word})
        unique_vowels ==
            Cardinality({word[k] : k \in {j \in DOMAIN word : word[j] \in Vowels}})
    IN  unique_letters + unique_vowels

\* SelectScan replacing the incumbent on an equal score too (>= for >)
RECURSIVE SelectScanLast(_, _, _)
SelectScanLast(candidates, k, best) ==
    IF k > Len(candidates) THEN best
    ELSE LET score == Score(candidates[k])
         IN  SelectScanLast(candidates, k + 1,
                IF score >= best[2] THEN <<candidates[k], score>> ELSE best)

\* select_guess: the scan `for word in candidates`, from index k on, with the
\* incumbent best_word_and_score = <<word, score>>
RECURSIVE SelectScan(_, _, _)
SelectScan(candidates, k, best) ==
    IF k > Len(candidates) THEN best
    ELSE LET score == Score(candidates[k])
         IN  SelectScan(candidates, k + 1,
                        IF score > best[2] THEN <<candidates[k], score>> ELSE best)

\* select_guess falling back to the default word on an empty list
SelectGuessOrDefault(candidates) ==
    IF candidates = << >> THEN Some(<<DEFAULT_FIRST_WORD, 0>>)
    ELSE LET best == SelectScan(candidates, 1, <<candidates[1], 0>>)
         IN  Some(<<best[1], Len(candidates)>>)

\* select_guess: Option<(&str, usize)>
select_guess(candidates) ==
    IF candidates = << >> THEN None
    ELSE LET best == SelectScan(candidates, 1, <<candidates[1], 0>>)
         IN  Some(<<best[1], Len(candidates)>>)

\* The empty accumulated state of solve (solver.rs 50-53)
EmptyState ==
    [green |-> [k \in 1..WordLen |-> None],
     yellow |-> << >>,
     gray |-> {},
     min_counts |-> << >>]

\* *round_counts.entry(char).or_default() += 1
Increment(counts, c) ==
    [x \in DOMAIN counts \cup {c} |->
        IF x = c THEN (IF c \in DOMAIN counts THEN counts[c] ELSE 0) + 1
        ELSE counts[x]]

\* ApplyScan counting the Gray positions of a letter in the round tally too
RECURSIVE ApplyScanCountsGray(_, _, _, _)
ApplyScanCountsGray(guess, feedback, k, acc) ==
    IF k > Len(guess) THEN acc
    ELSE LET char == guess[k]
             next ==
                CASE feedback[k] = Green ->
                        [acc EXCEPT !.green[k] = Some(char),
                                    !.round_counts = Increment(@, char)]
                  [] feedback[k] = Yellow ->
                        [acc EXCEPT !.yellow = Append(@, <<char, k>>),
                                    !.round_counts = Increment(@, char)]
                  [] feedback[k] = Gray ->
                        [acc EXCEPT !.gray = @ \cup {char},
                                    !.round_counts = Increment(@, char)]
         IN  ApplyScanCountsGray(guess, feedback, k + 1, next)

\* ApplyScan fixing the position on Yellow as it does on Green
RECURSIVE ApplyScanFixesPresent(_, _, _, _)
ApplyScanFixesPresent(guess, feedback, k, acc) ==
    IF k > Len(guess) THEN acc
    ELSE LET char == guess[k]
             next ==
                CASE feedback[k] = Green ->
                        [acc EXCEPT !.green[k] = Some(char),
                                    !.round_counts = Increment(@, char)]
                  [] feedback[k] = Yellow ->
                        [acc EXCEPT !.green[k] = Some(char),
                                    !.yellow = Append(@, <<char, k>>),
                                    !.round_counts = Increment(@, char)]
                  [] feedback[k] = Gray ->
                        [acc EXCEPT !.gray = @ \cup {char}]
         IN  ApplyScanFixesPresent(guess, feedback, k + 1, next)

\* apply_feedback: the first loop, from index k on.  acc holds green, yellow,
\* gray and round_counts.
RECURSIVE ApplyScan(_, _, _, _)
ApplyScan(guess, feedback, k, acc) ==
    IF k > Len(guess) THEN acc
    ELSE LET char == guess[k]
             next ==
                CASE feedback[k] = Green ->
                        [acc EXCEPT !.green[k] = Some(char),
                                    !.round_counts = Increment(@, char)]
                  [] feedback[k] = Yellow ->
                        [acc EXCEPT !.yellow = Append(@, <<char, k>>),
                                    !.round_counts = Increment(@, char)]
                  [] feedback[k] = Gray ->
                        [acc EXCEPT !.gray = @ \cup {char}]
         IN  ApplyScan(guess, feedback, k + 1, next)

\* MergeCounts adding the round's count to the entry instead of keeping the
\* larger of the two
MergeCountsSum(min_counts, round_counts) ==
    [c \in DOMAIN min_counts \cup DOMAIN round_counts |->
        (IF c \in DOMAIN min_counts THEN min_counts[c] ELSE 0)
        + (IF c \in DOMAIN round_counts THEN round_counts[c] ELSE 0)]

\* MergeCounts overwriting the entry with the round's count
MergeCountsReplace(min_counts, round_counts) ==
    [c \in DOMAIN min_counts \cup DOMAIN round_counts |->
        IF c \in DOMAIN round_counts THEN round_counts[c] ELSE min_counts[c]]

\* apply_feedback: the second loop (update minimum counts)
MergeCounts(min_counts, round_counts) ==
    [c \in DOMAIN min_counts \cup DOMAIN round_counts |->
        IF c \in DOMAIN round_counts
        THEN LET entry == IF c \in DOMAIN min_counts THEN min_counts[c] ELSE 0
             IN  IF round_counts[c] > entry THEN round_counts[c] ELSE entry
        ELSE min_counts[c]]

\* apply_feedback(guess, feedback, green, yellow, gray, min_counts): the four
\* &mut parameters are the fields of st, and the result is their new value
apply_feedback(guess, feedback, st) ==
    LET acc == ApplyScan(guess, feedback, 1,
                         [green |-> st.green, yellow |-> st.yellow,
                          gray |-> st.gray, round_counts |-> << >>])
    IN  [green |-> acc.green,
         yellow |-> acc.yellow,
         gray |-> acc.gray,
         min_counts |-> MergeCounts(st.min_counts, acc.round_counts)]

\* Keeps with the position test of the yellows inverted (== for !=)
KeepsYellowInPlace(w, st) ==
    /\ \A index \in DOMAIN st.green :
          IsSome(st.green[index]) => w[index] = Unwrap(st.green[index])
    /\ \A k \in DOMAIN st.yellow :
          w[st.yellow[k][2]] = st.yellow[k][1] /\ Contains(w, st.yellow[k][1])
    /\ \A gray_char \in st.gray :
          ~ (gray_char \notin DOMAIN st.min_counts /\ Contains(w, gray_char))
    /\ \A char \in DOMAIN st.min_counts :
          ~ (CountChar(w, char) < st.min_counts[char])

\* Keeps with every gray letter banned, also one that has a minimum count
KeepsGrayStrict(w, st) ==
    /\ \A index \in DOMAIN st.green :
          IsSome(st.green[index]) => w[index] = Unwrap(st.green[index])
    /\ \A k \in DOMAIN st.yellow :
          ~ (w[st.yellow[k][2]] = st.yellow[k][1] \/ ~ Contains(w, st.yellow[k][1]))
    /\ \A gray_char \in st.gray : ~ Contains(w, gray_char)
    /\ \A char \in DOMAIN st.min_counts :
          ~ (CountChar(w, char) < st.min_counts[char])

\* filter_candidates: the closure of .filter(|w| ...)
Keeps(w, st) ==
    LET candidate_chars == w
        greens ==
            \A index \in DOMAIN st.green :
                IsSome(st.green[index]) =>
                    candidate_chars[index] = Unwrap(st.green[index])
        yellows ==
            \A k \in DOMAIN st.yellow :
                ~ (candidate_chars[st.yellow[k][2]] = st.yellow[k][1]
                   \/ ~ Contains(candidate_chars, st.yellow[k][1]))
        grays ==
            \A gray_char \in st.gray :
                ~ (gray_char \notin DOMAIN st.min_counts
                   /\ Contains(candidate_chars, gray_char))
        minimums ==
            \A char \in DOMAIN st.min_counts :
                ~ (CountChar(candidate_chars, char) < st.min_counts[char])
    IN  greens /\ yellows /\ grays /\ minimums

\* FilterFrom collecting the kept words in reverse order
RECURSIVE FilterFromReversed(_, _, _)
FilterFromReversed(words, k, st) ==
    IF k > Len(words) THEN << >>
    ELSE FilterFromReversed(words, k + 1, st)
         \o (IF Keeps(words[k], st) THEN <<words[k]>> ELSE << >>)

\* filter_candidates: words.iter().filter(..).cloned().collect(), from index k on
RECURSIVE FilterFrom(_, _, _)
FilterFrom(words, k, st) ==
    IF k > Len(words) THEN << >>
    ELSE (IF Keeps(words[k], st) THEN <<words[k]>> ELSE << >>)
         \o FilterFrom(words, k + 1, st)

filter_candidates(words, st) == FilterFrom(words, 1, st)

----------------------------------------------------------------------------
(* solver.rs *)

\* remaining_chars.iter().position(|&c| c == Some(guess_char))
Position(remaining_chars, guess_char) ==
    LET hits == {p \in DOMAIN remaining_chars : remaining_chars[p] = Some(guess_char)}
    IN  IF hits = {} THEN None
        ELSE Some(CHOOSE p \in hits : \A q \in hits : p <= q)

\* generate_feedback: the first pass (mark green); zip stops at the shorter
FirstPass(guess, answer) ==
    LET both == 1..(IF Len(guess) < Len(answer) THEN Len(guess) ELSE Len(answer))
    IN  [result |-> [k \in 1..WordLen |->
                        IF k \in both /\ guess[k] = answer[k] THEN Green ELSE Gray],
         remaining_chars |-> [k \in 1..Len(answer) |->
                        IF k \in both /\ guess[k] = answer[k] THEN None
                        ELSE Some(answer[k])]]

\* SecondPass that does not consume the answer letter it matched
RECURSIVE SecondPassNoConsume(_, _, _)
SecondPassNoConsume(guess, k, acc) ==
    IF k > Len(guess) THEN acc
    ELSE SecondPassNoConsume(guess, k + 1,
            IF acc.result[k] = Gray /\ IsSome(Position(acc.remaining_chars, guess[k]))
            THEN [acc EXCEPT !.result[k] = Yellow]
            ELSE acc)

\* generate_feedback: the second pass (mark yellow), from index k on
RECURSIVE SecondPass(_, _, _)
SecondPass(guess, k, acc) ==
    IF k > Len(guess) THEN acc
    ELSE LET pos == Position(acc.remaining_chars, guess[k])
         IN  SecondPass(guess, k + 1,
                IF acc.result[k] = Gray /\ IsSome(pos)
                THEN [result |-> [acc.result EXCEPT ![k] = Yellow],
                      remaining_chars |->
                          [acc.remaining_chars EXCEPT ![Unwrap(pos)] = None]]
                ELSE acc)

generate_feedback(guess, answer) ==
    SecondPass(guess, 1, FirstPass(guess, answer)).result

\* ParseFeedback keeping the symbols read before a character that is no
\* feedback symbol
RECURSIVE ParseFeedbackPartial(_, _, _)
ParseFeedbackPartial(feedback_entry, k, feedback) ==
    IF k > Len(feedback_entry) THEN Some(feedback)
    ELSE LET parsed == FromChar(feedback_entry[k])
         IN  IF IsSome(parsed)
             THEN ParseFeedbackPartial(feedback_entry, k + 1,
                                       [feedback EXCEPT ![k] = Unwrap(parsed)])
             ELSE Some(feedback)

\* load_state: the parse of feedback_entry, from index k on; None when a
\* character is no feedback symbol (valid = false)
RECURSIVE ParseFeedback(_, _, _)
ParseFeedback(feedback_entry, k, feedback) ==
    IF k > Len(feedback_entry) THEN Some(feedback)
    ELSE LET parsed == FromChar(feedback_entry[k])
         IN  IF IsSome(parsed)
             THEN ParseFeedback(feedback_entry, k + 1,
                                [feedback EXCEPT ![k] = Unwrap(parsed)])
             ELSE None

\* load_state: the loop over the entries, from entry k on.  acc holds the
\* accumulated state and applied_guesses.
RECURSIVE LoadEntries(_, _, _)
LoadEntries(entries, k, acc) ==
    IF k > Len(entries) THEN acc
    ELSE LET entry == Trim(entries[k])
         IN  IF Len(entry) # EntryLen THEN LoadEntries(entries, k + 1, acc)
             ELSE LET guess == SubSeq(entry, 1, WordLen)
                      feedback_entry == SubSeq(entry, WordLen + 1, Len(entry))
                      feedback == ParseFeedback(feedback_entry, 1,
                                                [j \in 1..WordLen |-> Gray])
                  IN  IF ~ IsSome(feedback) THEN LoadEntries(entries, k + 1, acc)
                      ELSE LoadEntries(entries, k + 1,
                              [st |-> apply_feedback(guess, Unwrap(feedback), acc.st),
                               applied_guesses |-> acc.applied_guesses + 1])

\* SaturatingSub leaving the budget as it was
KeepBudget(a, b) == a

\* usize::saturating_sub
SaturatingSub(a, b) == IF a > b THEN a - b ELSE 0

\* load_state(data, green, yellow, gray, min_counts, remaining)
load_state(data, st, remaining) ==
    LET acc == LoadEntries(Split(data, ","), 1, [st |-> st, applied_guesses |-> 0])
    IN  [st |-> acc.st,
         applied_guesses |-> acc.applied_guesses,
         remaining |-> SaturatingSub(remaining, acc.applied_guesses)]

----------------------------------------------------------------------------
(* Words and inputs of the model *)

crane == <<"c", "r", "a", "n", "e">>

slate == <<"s", "l", "a", "t", "e">>

trace == <<"t", "r", "a", "c", "e">>

brace == <<"b", "r", "a", "c", "e">>

eerie == <<"e", "e", "r", "i", "e">>

eagle == <<"e", "a", "g", "l", "e">>

allee == <<"a", "l", "l", "e", "e">>

reads == <<"r", "e", "a", "d", "s">>

\* The word lists load_words may hand to solve: lines of length 5, in file
\* order, duplicates kept; a file without such lines gives the empty list.
Dictionaries ==
    { <<crane, slate, trace, brace>>,
      <<eerie, eagle, allee, eagle, reads>>,
      << >> }

\* Bounds of the model
MaxGuesses == 3

MaxEntries == 2

MaxCoreRounds == 2

\* All feedback arrays [Feedback; 5]
FeedbackArrays == [1..WordLen -> Feedback]

\* The symbol print_usage documents for each feedback class
Symbol(f) == CASE f = Green -> "g" [] f = Yellow -> "y" [] f = Gray -> "b"

\* The feedback string a user types for a feedback array
FeedbackString(feedback) == [k \in 1..WordLen |-> Symbol(feedback[k])]

\* The lines the interactive source may deliver to manual_feedback beside
\* well-formed feedback strings: empty (also end of input), blank, of a wrong
\* length, holding a character that is no feedback symbol; and well-formed
\* ones that are padded or upper case.
MalformedLines ==
    { << >>,
      <<" ", " ">>,
      <<"g", "y">>,
      <<"g", "y", "b", "b", "b", "b">>,
      <<"g", "x", "b", "b", "b", "b">>,
      <<"x", "y">>,
      <<"g", "y", "x", "b", "b">>,
      <<"b", "b", "b", "b", "?">> }

OddLines ==
    { <<" ", "b", "y", "b", "b", "g", "\n">>,
      <<"B", "G", "G", "Y", "G">> }

\* The words of the model
Pool == UNION {{d[k] : k \in DOMAIN d} : d \in Dictionaries} \cup {DEFAULT_FIRST_WORD}

\* What a user types who answers for a hidden word of the pool, and the
\* all-gray answer
AnswerLines ==
    {FeedbackString(generate_feedback(g, a)) : g \in Pool, a \in Pool}
    \cup {FeedbackString([k \in 1..WordLen |-> Gray])}

Lines == AnswerLines \cup MalformedLines \cup OddLines

\* The entries a --state history is made of: the first of print_usage's
\* example, what the oracle answers for crane against trace, an entry that
\* is padded and upper case (what the oracle answers for allee against
\* eagle), an all-green entry, an entry that is too short and one that holds
\* a character that is no feedback symbol.
HistoryEntries ==
    { slate \o <<"y", "b", "b", "b", "b">>,
      crane \o <<"y", "g", "g", "b", "g">>,
      <<" ">> \o allee \o <<"Y", "Y", "b", "y", "G">> \o <<" ">>,
      trace \o <<"g", "g", "g", "g", "g">>,
      crane \o <<"y", "g", "g", "b">>,
      crane \o <<"y", "g", "x", "b", "g">> }

RECURSIVE Join(_, _)
Join(pieces, sep) ==
    IF pieces = << >> THEN << >>
    ELSE IF Len(pieces) = 1 THEN pieces[1]
    ELSE pieces[1] \o <<sep>> \o Join(Tail(pieces), sep)

\* The --state strings: up to MaxEntries entries separated by commas
Histories ==
    UNION { { Join(es, ",") : es \in [1..n -> HistoryEntries] } : n \in 0..MaxEntries }

----------------------------------------------------------------------------
(* The state of solve *)

VARIABLES
    word_list,          \* solve's parameter: the dictionary
    test_answer,        \* solve's parameter: Some(answer) in test mode
    initial_state,      \* solve's parameter: Some(history) with --state
    chosen_first,       \* solve's parameter: the opening word
    max_guesses,        \* solve's parameter
    green,              \* [Option<char>; 5]
    yellow,             \* Vec<(char, usize)>
    gray,               \* HashSet<char>
    min_counts,         \* HashMap<char, usize>
    remaining_rounds,   \* the budget, after load_state
    applied_guesses,    \* load_state's count of applied entries
    round,              \* the loop variable of `for round in 1..=remaining_rounds`
    pc,                 \* where the run stands
    outcome,            \* what the run reported when it ended
    guess,              \* the guess of the current round
    guess_count,        \* the number printed with the guess
    total_candidates,   \* the candidate count printed with the guess
    candidates,         \* the last result of filter_candidates
    selected,           \* the last result of select_guess
    feedback,           \* the feedback of the current round
    line,               \* the trimmed line on which manual_feedback last left its loop
    transcript          \* the (guess, feedback) pairs given to apply_feedback

vars ==
    <<word_list, test_answer, initial_state, chosen_first, max_guesses, green,
      yellow, gray, min_counts, remaining_rounds, applied_guesses, round, pc,
      outcome, guess, guess_count, total_candidates, candidates, selected,
      feedback, line, transcript>>

inputs == <<word_list, initial_state, chosen_first, max_guesses>>

\* The four accumulators as one value
State == [green |-> green, yellow |-> yellow, gray |-> gray, min_counts |-> min_counts]

SetState(st) ==
    /\ green' = st.green
    /\ yellow' = st.yellow
    /\ gray' = st.gray
    /\ min_counts' = st.min_counts

\* solve: chosen_first.unwrap_or_else(|| DEFAULT_FIRST_WORD.to_string())
first_word == IF IsSome(chosen_first) THEN Unwrap(chosen_first) ELSE DEFAULT_FIRST_WORD

Words(list) == {list[k] : k \in DOMAIN list}

\* The opening words of the model: the first two words of the list
FirstChoices(list) == {list[k] : k \in DOMAIN list \cap 1..2}

\* AllGreen satisfied by one green position
AnyGreen(f) == \E k \in DOMAIN f : f[k] = Green

\* solve, line 99: feedback.iter().all(|&f| f == Feedback::Green)
AllGreen(f) == \A k \in DOMAIN f : f[k] = Green

NoFeedback == [k \in 1..WordLen |-> Gray]

\* The locals of solve as lines 50-55 leave them
Locals ==
    /\ green = EmptyState.green
    /\ yellow = EmptyState.yellow
    /\ gray = EmptyState.gray
    /\ min_counts = EmptyState.min_counts
    /\ remaining_rounds = max_guesses
    /\ applied_guesses = 0
    /\ round = 0
    /\ outcome = "running"
    /\ guess = << >>
    /\ guess_count = 0
    /\ total_candidates = 0
    /\ candidates = << >>
    /\ selected = None
    /\ feedback = NoFeedback
    /\ line = << >>
    /\ transcript = << >>

\* main: the arguments it gives solve.  A test word is one of the list; with
\* a test word no history is passed; the first word is one of the list, or
\* the default.
Init ==
    /\ word_list \in Dictionaries
    /\ test_answer \in {None} \cup {Some(w) : w \in Words(word_list)}
    /\ initial_state \in
          IF IsSome(test_answer) THEN {None}
          ELSE {None} \cup {Some(h) : h \in Histories}
    /\ chosen_first \in {None} \cup {Some(w) : w \in FirstChoices(word_list)}
    /\ max_guesses \in 1..MaxGuesses
    /\ pc = "start"
    /\ Locals

\* solve, lines 57-69: load previous state in finish mode
Restore ==
    /\ pc = "start"
    /\ IF test_answer = None /\ IsSome(initial_state)
       THEN LET loaded == load_state(Unwrap(initial_state), State, remaining_rounds)
            IN  /\ SetState(loaded.st)
                /\ remaining_rounds' = loaded.remaining
                /\ applied_guesses' = loaded.applied_guesses
       ELSE UNCHANGED <<green, yellow, gray, min_counts, remaining_rounds,
                        applied_guesses>>
    /\ round' = 1
    /\ pc' = "select"
    /\ UNCHANGED <<inputs, test_answer, outcome, guess, guess_count,
                   total_candidates, candidates, selected, feedback, line,
                   transcript>>

\* solve, lines 72 and 115: the range 1..=remaining_rounds is used up
Exhaust ==
    /\ pc = "select"
    /\ round > remaining_rounds
    /\ outcome' = "Failed"
    /\ pc' = "done"
    /\ UNCHANGED <<inputs, test_answer, green, yellow, gray, min_counts,
                   remaining_rounds, applied_guesses, round, guess, guess_count,
                   total_candidates, candidates, selected, feedback, line,
                   transcript>>

\* GuessCount counting the rounds of the loop only, not the replayed entries
GuessCountOfLoop == round

\* solve, line 77
GuessCount == round + max_guesses - remaining_rounds

\* solve, lines 73-90: find valid words, select and print the guess
Select ==
    /\ pc = "select"
    /\ round <= remaining_rounds
    /\ LET found == filter_candidates(word_list, State)
           choice == select_guess(found)
       IN  /\ candidates' = found
           /\ guess_count' = GuessCount
           /\ IF GuessCount = 1
              THEN /\ guess' = first_word
                   /\ total_candidates' = Len(word_list)
                   /\ pc' = "feedback"
                   /\ UNCHANGED <<selected, outcome>>
              ELSE /\ selected' = choice
                   /\ IF IsSome(choice)
                      THEN /\ guess' = Unwrap(choice)[1]
                           /\ total_candidates' = Unwrap(choice)[2]
                           /\ pc' = "feedback"
                           /\ UNCHANGED outcome
                      ELSE /\ outcome' = "NoCandidates"
                           /\ pc' = "done"
                           /\ UNCHANGED <<guess, total_candidates>>
    /\ UNCHANGED <<inputs, test_answer, green, yellow, gray, min_counts,
                   remaining_rounds, applied_guesses, round, feedback, line,
                   transcript>>

\* solve, lines 98-112: check for success, else record the feedback and go
\* to the next round
Record(f) ==
    /\ feedback' = f
    /\ IF AllGreen(f)
       THEN /\ outcome' = "Solved"
            /\ pc' = "done"
            /\ UNCHANGED <<green, yellow, gray, min_counts, round, transcript>>
       ELSE /\ SetState(apply_feedback(guess, f, State))
            /\ transcript' = Append(transcript, <<guess, f>>)
            /\ round' = round + 1
            /\ pc' = "select"
            /\ UNCHANGED outcome

\* solve, lines 93-112 in test mode: generate_feedback(guess, word)
OracleFeedback ==
    /\ pc = "feedback"
    /\ IsSome(test_answer)
    /\ Record(generate_feedback(guess, Unwrap(test_answer)))
    /\ UNCHANGED <<inputs, test_answer, remaining_rounds, applied_guesses, guess,
                   guess_count, total_candidates, candidates, selected, line>>

\* manual_feedback, lines 142-148: None when a character is no feedback symbol
ParseLine(text) == ParseFeedback(text, 1, [k \in 1..WordLen |-> Gray])

\* solve, lines 93-112 in manual mode: one pass of manual_feedback's loop on
\* the line `typed`, and what solve does with the array it returns
ManualFeedback(typed) ==
    /\ pc = "feedback"
    /\ test_answer = None
    /\ CASE Trim(typed) = << >> ->
              /\ line' = Trim(typed)
              /\ outcome' = "NoInput"
              /\ pc' = "done"
              /\ UNCHANGED <<green, yellow, gray, min_counts, round, feedback,
                             transcript>>
         [] Trim(typed) # << >> /\ Len(Trim(typed)) # WordLen ->
              UNCHANGED <<green, yellow, gray, min_counts, round, feedback,
                          transcript, outcome, pc, line>>
         [] Len(Trim(typed)) = WordLen /\ ~ IsSome(ParseLine(Trim(typed))) ->
              /\ line' = Trim(typed)
              /\ outcome' = "InvalidFeedback"
              /\ pc' = "done"
              /\ UNCHANGED <<green, yellow, gray, min_counts, round, feedback,
                             transcript>>
         [] Len(Trim(typed)) = WordLen /\ IsSome(ParseLine(Trim(typed))) ->
              /\ line' = Trim(typed)
              /\ Record(Unwrap(ParseLine(Trim(typed))))
    /\ UNCHANGED <<inputs, test_answer, remaining_rounds, applied_guesses, guess,
                   guess_count, total_candidates, candidates, selected>>

Prompt == \E typed \in Lines : ManualFeedback(typed)

Next ==
    \/ Restore
    \/ Exhaust
    \/ Select
    \/ OracleFeedback
    \/ Prompt

Spec == Init /\ [][Next]_vars

----------------------------------------------------------------------------
(* The constraint engine on its own: apply_feedback, filter_candidates,    *)
(* select_guess and generate_feedback on every feedback array, as          *)
(* load_state and the round loop call them one after the other.            *)

\* The guesses of the engine runs that get every feedback array: a word with
\* a letter three times.  The other words of the pool get the oracle's.
CoreGuesses == {eerie}

CoreUnused ==
    <<initial_state, chosen_first, max_guesses, remaining_rounds,
      applied_guesses, round, outcome, guess_count, total_candidates, line>>

CoreInit ==
    /\ word_list \in Dictionaries
    /\ test_answer = None
    /\ initial_state = None
    /\ chosen_first = None
    /\ max_guesses = 1
    /\ pc = "core_start"
    /\ Locals

\* filter_candidates and select_guess on the accumulated state st
Narrow(st) ==
    LET found == filter_candidates(word_list, st)
    IN  /\ candidates' = found
        /\ selected' = select_guess(found)

\* solve, lines 74 and 81 on the empty state
CoreStart ==
    /\ pc = "core_start"
    /\ pc' = "core"
    /\ Narrow(State)
    /\ UNCHANGED <<word_list, test_answer, green, yellow, gray, min_counts,
                   guess, feedback, transcript, CoreUnused>>

\* apply_feedback(g, f, ..) as at solver.rs 105 and 212, then
\* filter_candidates and select_guess on the new state
CoreApply(g, f) ==
    /\ guess' = g
    /\ feedback' = f
    /\ SetState(apply_feedback(g, f, State))
    /\ transcript' = Append(transcript, <<g, f>>)
    /\ Narrow(apply_feedback(g, f, State))
    /\ UNCHANGED <<word_list, pc, CoreUnused>>

\* A round with a feedback array from outside (a typed line, a history entry)
CoreRound ==
    /\ pc = "core"
    /\ Len(transcript) < MaxCoreRounds
    /\ \E g \in CoreGuesses, f \in FeedbackArrays :
          /\ test_answer' = None
          /\ CoreApply(g, f)

\* A round with the oracle's feedback for a hidden answer
CoreOracleRound ==
    /\ pc = "core"
    /\ Len(transcript) < MaxCoreRounds
    /\ \E g \in Pool, a \in Pool :
          /\ test_answer' = Some(a)
          /\ CoreApply(g, generate_feedback(g, a))

\* The last (guess, feedback) pair once more
CoreRepeat ==
    /\ pc = "core"
    /\ Len(transcript) \in 1..MaxCoreRounds
    /\ transcript[Len(transcript)] = <<guess, feedback>>
    /\ UNCHANGED test_answer
    /\ CoreApply(guess, feedback)

CoreNext ==
    \/ CoreStart
    \/ CoreRound
    \/ CoreOracleRound
    \/ CoreRepeat

CoreSpec == CoreInit /\ [][CoreNext]_vars

----------------------------------------------------------------------------
(* The replay of a --state history alone: solve up to the first guess of   *)
(* the loop, on histories of up to MaxReplayEntries entries.               *)

MaxReplayEntries == 3

ReplayHistories ==
    UNION { { Join(es, ",") : es \in [1..n -> HistoryEntries] } : n \in 1..MaxReplayEntries }

ReplayInit ==
    /\ word_list \in Dictionaries
    /\ test_answer = None
    /\ initial_state \in {Some(h) : h \in ReplayHistories}
    /\ chosen_first = None
    /\ max_guesses \in 1..MaxGuesses
    /\ pc = "start"
    /\ Locals

ReplayNext ==
    \/ Restore
    \/ Exhaust
    \/ Select

ReplaySpec == ReplayInit /\ [][ReplayNext]_vars

----------------------------------------------------------------------------
(* solve in test mode (-t): every feedback is generate_feedback's for the  *)
(* one hidden answer.  The word lists are those of the sessions and one    *)
(* whose words differ in a repeated letter only.                           *)

allel == <<"a", "l", "l", "e", "l">>

OracleDictionaries == Dictionaries \cup { <<allee, allel, eagle>> }

\* main: with a test word solve gets no history
OracleInit ==
    /\ word_list \in OracleDictionaries
    /\ test_answer \in {Some(w) : w \in Words(word_list)}
    /\ initial_state = None
    /\ chosen_first \in {None} \cup {Some(w) : w \in FirstChoices(word_list)}
    /\ max_guesses \in 1..MaxGuesses
    /\ pc = "start"
    /\ Locals

OracleNext ==
    \/ Restore
    \/ Exhaust
    \/ Select
    \/ OracleFeedback

OracleSpec == OracleInit /\ [][OracleNext]_vars

----------------------------------------------------------------------------
(* Notions the claims are stated with *)

\* The number of positions of word w that hold letter c
Occurrences(w, c) == Cardinality({j \in 1..Len(w) : w[j] = c})

Letters(w) == {w[j] : j \in 1..Len(w)}

Min(a, b) == IF a < b THEN a ELSE b

\* The number of entries of list that are the word w
Copies(list, w) == Cardinality({k \in 1..Len(list) : list[k] = w})

\* sub is a subsequence of list: its entries appear in list in the same order
RECURSIVE IsSubsequence(_, _)
IsSubsequence(sub, list) ==
    IF sub = << >> THEN TRUE
    ELSE IF list = << >> THEN FALSE
    ELSE IF Head(sub) = Head(list) THEN IsSubsequence(Tail(sub), Tail(list))
    ELSE IsSubsequence(sub, Tail(list))

----------------------------------------------------------------------------
(* C1 *)

\* The scenario of C1 in test mode: the four-word list, the answer trace,
\* the opening word crane, and the second round has computed its candidates
\* from the state the first round left.
C1_Scenario ==
    /\ word_list = <<crane, slate, trace, brace>>
    /\ test_answer = Some(trace)
    /\ chosen_first = Some(crane)
    /\ guess_count = 2

\* C1 as stated: after the oracle's feedback for crane against trace is
\* applied to the empty state, filter_candidates over the four words yields
\* exactly {trace}.
C1_OnlyTrace ==
    C1_Scenario =>
        /\ transcript[1][1] = crane
        /\ {candidates[k] : k \in DOMAIN candidates} = {trace}

\* C1 amended: the feedback is Yellow, Green, Green, Gray, Green, and
\* filter_candidates over the four words yields trace and brace, in this
\* order: brace agrees with that feedback as well.
C1_TraceAndBrace ==
    C1_Scenario =>
        /\ transcript = << <<crane, <<Yellow, Green, Green, Gray, Green>>>> >>
        /\ candidates = <<trace, brace>>

C1_Witness ==
    /\ C1_Scenario
    /\ Len(candidates) = 2
    /\ total_candidates = 2

----------------------------------------------------------------------------
(* C2 *)

\* The four conditions of C2 on a word w, for the accumulated state
Fixed(w) == \A i \in 1..WordLen : green[i] # None => w[i] = green[i][1]

Misplaced(w) ==
    \A k \in 1..Len(yellow) :
        /\ Occurrences(w, yellow[k][1]) >= 1
        /\ w[yellow[k][2]] # yellow[k][1]

Excluded(w) ==
    \A letter \in gray \ DOMAIN min_counts : Occurrences(w, letter) = 0

Minimums(w) ==
    \A letter \in DOMAIN min_counts : Occurrences(w, letter) >= min_counts[letter]

\* C2: a word of the dictionary is in filter_candidates' result if and only
\* if it satisfies the four conditions (fixed, misplaced, excluded letters
\* without a minimum count, minimum counts).
C2_FilterIffConditions ==
    pc = "core" =>
        \A k \in 1..Len(word_list) :
            (\E j \in 1..Len(candidates) : candidates[j] = word_list[k])
            <=> (/\ Fixed(word_list[k])
                 /\ Misplaced(word_list[k])
                 /\ Excluded(word_list[k])
                 /\ Minimums(word_list[k]))

\* A state where all four conditions matter: a fixed position, a misplaced
\* letter, a gray letter with and one without a minimum count, a minimum
\* count of 2, and the filter keeps some words and drops others.
C2_Witness ==
    /\ pc = "core"
    /\ \E i \in 1..WordLen : green[i] # None
    /\ yellow # << >>
    /\ gray \cap DOMAIN min_counts # {}
    /\ gray \ DOMAIN min_counts # {}
    /\ \E letter \in DOMAIN min_counts : min_counts[letter] >= 2
    /\ candidates # << >>
    /\ Len(candidates) < Len(word_list)

----------------------------------------------------------------------------
(* C3 *)

\* C3: filter_candidates' result is a subsequence of the dictionary (same
\* relative order, no word that is not in the dictionary), and a word is
\* retained once per occurrence: as often as the dictionary holds it, or not
\* at all.
C3_Subsequence ==
    pc = "core" =>
        /\ IsSubsequence(candidates, word_list)
        /\ \A k \in 1..Len(word_list) :
              Copies(candidates, word_list[k]) \in {0, Copies(word_list, word_list[k])}

\* The filter has kept a duplicated word and another word, and dropped some
C3_Witness ==
    /\ pc = "core"
    /\ transcript # << >>
    /\ \E k \in 1..Len(candidates) : Copies(candidates, candidates[k]) = 2
    /\ \E k \in 1..Len(candidates) : Copies(candidates, candidates[k]) = 1
    /\ Len(candidates) < Len(word_list)

----------------------------------------------------------------------------
(* C4 *)

\* The positions of the guess that hold letter c and are marked Exact or
\* Present
Marked(g, f, c) == {i \in 1..WordLen : g[i] = c /\ f[i] \in {Green, Yellow}}

OracleRound == pc = "core" /\ transcript # << >> /\ IsSome(test_answer)

\* C4: generate_feedback marks position i Exact iff guess[i] = answer[i];
\* for every letter the number of positions marked Exact or Present is the
\* smaller of its occurrences in the guess and in the answer; every other
\* position is Absent.
C4_OracleFeedback ==
    OracleRound =>
        /\ \A i \in 1..WordLen : feedback[i] = Green <=> guess[i] = test_answer[1][i]
        /\ \A c \in Letters(guess) :
              Cardinality(Marked(guess, feedback, c))
                 = Min(Occurrences(guess, c), Occurrences(test_answer[1], c))
        /\ \A i \in 1..WordLen : feedback[i] \in {Green, Yellow, Gray}

\* The guess holds a letter twice of which the answer holds one, elsewhere:
\* one is marked Present and the other Absent
C4_Witness ==
    /\ OracleRound
    /\ \E i, j \in 1..WordLen :
          /\ i < j
          /\ guess[i] = guess[j]
          /\ Occurrences(test_answer[1], guess[i]) = 1
          /\ feedback[i] = Yellow
          /\ feedback[j] = Gray

----------------------------------------------------------------------------
(* C5 *)

\* The step applies the last (guess, feedback) pair once more
RepeatStep ==
    /\ pc = "core"
    /\ transcript # << >>
    /\ transcript' = Append(transcript, transcript[Len(transcript)])

\* The entries apply_feedback appends to yellow for a pair: one per Present
\* position, in position order
RECURSIVE PresentEntries(_, _, _)
PresentEntries(g, f, i) ==
    IF i > WordLen THEN << >>
    ELSE (IF f[i] = Yellow THEN << <<g[i], i>> >> ELSE << >>)
         \o PresentEntries(g, f, i + 1)

\* C5: applying a (guess, feedback) pair a second time leaves the result of
\* filter_candidates, fixed, minCounts (and the excluded letters) as they
\* were after the first time; only misplaced differs, by the duplicated
\* entries.
C5_Idempotent ==
    [][RepeatStep =>
          /\ candidates' = candidates
          /\ green' = green
          /\ min_counts' = min_counts
          /\ gray' = gray
          /\ yellow' = yellow \o PresentEntries(guess, feedback, 1)]_vars

\* A pair with Exact, Present and Absent marks was applied twice, on top of
\* an earlier round, and candidates remain
C5_Witness ==
    /\ pc = "core"
    /\ Len(transcript) = 3
    /\ transcript[3] = transcript[2]
    /\ transcript[2] # transcript[1]
    /\ \E i, j, k \in 1..WordLen :
          feedback[i] = Green /\ feedback[j] = Yellow /\ feedback[k] = Gray
    /\ candidates # << >>

----------------------------------------------------------------------------
(* C6 *)

UpperSymbol(f) == CASE f = Green -> "G" [] f = Yellow -> "Y" [] f = Gray -> "B"

\* One entry of a serialized history, as print_usage describes it: the
\* guess, then one symbol per position; the symbols may be upper case and
\* the entry may have blanks around it
SerializeEntry(pair, upper, padded) ==
    LET symbols == [k \in 1..WordLen |->
                       IF upper THEN UpperSymbol(pair[2][k]) ELSE Symbol(pair[2][k])]
        entry == pair[1] \o symbols
    IN  IF padded THEN <<" ">> \o entry \o <<" ", " ">> ELSE entry

\* A serialized history: the entries separated by commas
Serialize(pairs, upper, padded) ==
    Join([k \in 1..Len(pairs) |-> SerializeEntry(pairs[k], upper, padded)], ",")

\* The history of the game so far: the entries the session was started
\* with, if any, followed by the serialized rounds of the loop
HistorySoFar(upper, padded) ==
    IF IsSome(initial_state) /\ transcript = << >> THEN Unwrap(initial_state)
    ELSE IF IsSome(initial_state)
    THEN Unwrap(initial_state) \o <<",">> \o Serialize(transcript, upper, padded)
    ELSE Serialize(transcript, upper, padded)

\* C6: load_state on the serialized history produces, from the empty state,
\* the ConstraintState the round loop has accumulated by applying the same
\* (guess, feedback) pairs in the same order (and counts one applied guess
\* per round of the loop beside those it was started with).
C6_RoundTrip ==
    pc # "start" =>
        \A upper \in BOOLEAN, padded \in BOOLEAN :
            LET loaded == load_state(HistorySoFar(upper, padded), EmptyState, max_guesses)
            IN  /\ loaded.st.green = green
                /\ loaded.st.yellow = yellow
                /\ loaded.st.gray = gray
                /\ loaded.st.min_counts = min_counts
                /\ loaded.applied_guesses = applied_guesses + Len(transcript)

\* A session started without a history has applied two different rounds,
\* with marks of every class
C6_Witness ==
    /\ initial_state = None
    /\ Len(transcript) = 2
    /\ transcript[1] # transcript[2]
    /\ \E i \in 1..WordLen : green[i] # None
    /\ Len(yellow) >= 2
    /\ gray # {}

----------------------------------------------------------------------------
(* C7 *)

RecognizedSymbols == {"g", "y", "b", "G", "Y", "B"}

HasUnrecognized(text) == \E k \in 1..Len(text) : text[k] \notin RecognizedSymbols

\* C7: in interactive mode a feedback string that holds a character outside
\* the three recognized symbols is rejected and the user is prompted again
\* for the same guess: the session stays active, and the constraint state
\* and the remaining budget are unchanged.
C7_RejectedAndPromptedAgain ==
    [][(pc = "feedback" /\ test_answer = None /\ HasUnrecognized(line')) =>
          /\ pc' = "feedback"
          /\ outcome' = "running"
          /\ guess' = guess
          /\ UNCHANGED <<green, yellow, gray, min_counts, remaining_rounds, round>>]_vars

----------------------------------------------------------------------------
(* C8 *)

\* C8: a session ends in one of four outcomes: solved, failed after the
\* maximum of rounds, aborted with no candidates, aborted because the input
\* source had no more input.
C8_FourOutcomes ==
    pc = "done" => outcome \in {"Solved", "Failed", "NoCandidates", "NoInput"}

----------------------------------------------------------------------------
(* C9 *)

\* The guess and the count select_guess returns on the current filter result
Selection == select_guess(filter_candidates(word_list, State))

\* C9 as stated: in the first round the loop plays, when an opening word was
\* supplied, the guess is that word, the selector is not invoked and the
\* reported count is the size of the dictionary; in every other round the
\* guess and the count are those select_guess returns on the current filter
\* result.
C9_FirstRoundOfLoop ==
    pc = "feedback" =>
        /\ (round = 1 /\ IsSome(chosen_first)) =>
              /\ guess = chosen_first[1]
              /\ total_candidates = Len(word_list)
        /\ round > 1 => Some(<<guess, total_candidates>>) = Selection

\* C9 amended: in the round printed as guess number 1, which is the first
\* round of the loop in a session whose history replay applied no entry, the
\* guess is the opening word (the supplied one, or the default when none was
\* supplied), the selector is not invoked and the reported count is the size
\* of the dictionary; in every other round, the first round after a replay
\* that applied an entry included, the guess and the count are those
\* select_guess returns on the current filter result.
C9_FirstGuessOfSession ==
    pc = "feedback" =>
        IF round = 1 /\ applied_guesses = 0
        THEN /\ guess = (IF chosen_first # None THEN chosen_first[1]
                         ELSE DEFAULT_FIRST_WORD)
             /\ total_candidates = Len(word_list)
             /\ selected = None
        ELSE /\ Some(<<guess, total_candidates>>) = Selection
             /\ selected = Selection

\* The first round of the loop after a replay that applied an entry: an
\* opening word was supplied and the guess is another word
C9_Witness ==
    /\ pc = "feedback"
    /\ round = 1
    /\ applied_guesses >= 1
    /\ chosen_first # None
    /\ guess # chosen_first[1]
    /\ total_candidates < Len(word_list)

----------------------------------------------------------------------------
(* C10 *)

\* The score of C10: distinct letters plus distinct letters among a, e, i,
\* o, u, y
ScoreOf(w) == Cardinality(Letters(w)) + Cardinality(Letters(w) \cap {"a", "e", "i", "o", "u", "y"})

\* C10: for a non-empty list select_guess returns the first word whose score
\* is the maximum over the list, with the length of the list; for the empty
\* list it returns None.  (The result is a function of the list alone.)
C10_FirstOfBest ==
    pc = "core" =>
        IF candidates = << >> THEN selected = None
        ELSE \E k \in 1..Len(candidates) :
                /\ selected = Some(<<candidates[k], Len(candidates)>>)
                /\ \A j \in 1..Len(candidates) :
                      ScoreOf(candidates[j]) <= ScoreOf(candidates[k])
                /\ \A j \in 1..(k - 1) :
                      ScoreOf(candidates[j]) < ScoreOf(candidates[k])

\* Two different words share the maximum score, and words of a lower score
\* come before them
C10_Witness ==
    /\ pc = "core"
    /\ selected # None
    /\ \E j, k \in 1..Len(candidates) :
          /\ j < k
          /\ candidates[j] # candidates[k]
          /\ ScoreOf(candidates[j]) = ScoreOf(candidates[k])
          /\ \A m \in 1..Len(candidates) : ScoreOf(candidates[m]) <= ScoreOf(candidates[j])
          /\ selected[1][1] = candidates[j]

----------------------------------------------------------------------------
(* C11 *)

\* An entry of a history that is valid: ten characters once trimmed, the
\* last five of them feedback symbols
ValidEntry(e) ==
    /\ Len(Trim(e)) = EntryLen
    /\ \A k \in (WordLen + 1)..EntryLen : Trim(e)[k] \in RecognizedSymbols

\* The valid entries of a history, in order
ValidEntries(h) ==
    SelectSeq(Split(h, ","), LAMBDA e : ValidEntry(e))

\* N of C11 and C12: the number of valid entries of the session's history
ValidCount == IF IsSome(initial_state) THEN Len(ValidEntries(initial_state[1])) ELSE 0

\* max(M - N, 0)
Budget == IF max_guesses > ValidCount THEN max_guesses - ValidCount ELSE 0

\* C11: after the replay of a history with N valid entries on a budget of M
\* guesses the remaining budget is max(M - N, 0); the loop plays at most
\* that many rounds; the session ends as failed exactly when that many
\* rounds of the loop are completed without an all-Exact feedback; with
\* N >= M no guess is made and the session ends as failed.
C11_ReplayBudget ==
    pc # "start" =>
        /\ remaining_rounds = Budget
        /\ Len(transcript) <= Budget
        /\ pc = "feedback" => Len(transcript) < Budget
        /\ outcome = "Failed" <=> (pc = "done" /\ Len(transcript) = Budget)
        /\ Budget = 0 => (guess = << >> /\ guess_count = 0 /\ pc \in {"select", "done"})

\* A history with one valid entry on a budget of three: the loop has played
\* two rounds and the session has failed
C11_Witness ==
    /\ IsSome(initial_state)
    /\ ValidCount = 1
    /\ max_guesses = 3
    /\ Len(transcript) = 2
    /\ outcome = "Failed"

----------------------------------------------------------------------------
(* C12 *)

\* The feedback class a recognized symbol stands for
DecodeSymbol(c) ==
    CASE c \in {"g", "G"} -> Green
      [] c \in {"y", "Y"} -> Yellow
      [] c \in {"b", "B"} -> Gray

\* The (guess, feedback) pair a valid entry stands for
EntryPair(e) ==
    <<SubSeq(Trim(e), 1, WordLen),
      [k \in 1..WordLen |-> DecodeSymbol(Trim(e)[WordLen + k])]>>

\* apply_feedback on the pairs of the entries es, in order, from the state st
RECURSIVE ApplyEntries(_, _)
ApplyEntries(es, st) ==
    IF es = << >> THEN st
    ELSE ApplyEntries(Tail(es), apply_feedback(EntryPair(Head(es))[1], EntryPair(Head(es))[2], st))

\* C12: the replay skips an entry of the wrong length or with an
\* unrecognized feedback symbol as a whole: the ConstraintState after the
\* replay is the one the valid entries alone produce, applied in order, and
\* the budget is decremented by the number of valid entries only.
C12_SkipsMalformed ==
    pc # "start" =>
        /\ State = ApplyEntries(ValidEntries(initial_state[1]), EmptyState)
        /\ applied_guesses = ValidCount
        /\ remaining_rounds = Budget

\* A history of three entries: a valid one, one whose third feedback symbol
\* is not recognized (its first two are), and another valid one
C12_Witness ==
    /\ pc # "start"
    /\ max_guesses = 3
    /\ LET es == Split(initial_state[1], ",")
       IN  /\ Len(es) = 3
           /\ ValidEntry(es[1])
           /\ Len(es[2]) = EntryLen
           /\ es[2][WordLen + 1] \in RecognizedSymbols
           /\ es[2][WordLen + 3] \notin RecognizedSymbols
           /\ ValidEntry(es[3])
           /\ es[3] # es[1]
    /\ applied_guesses = 2
    /\ remaining_rounds = 1

----------------------------------------------------------------------------
(* C13 *)

\* The loop is about to play a round in which it invokes the selector (any
\* round but the one of guess number 1) and the filter result is empty
EmptySelection ==
    /\ pc = "select"
    /\ round <= remaining_rounds
    /\ ~ (round = 1 /\ applied_guesses = 0)
    /\ \A k \in 1..Len(word_list) : ~ Keeps(word_list[k], State)

\* C13: in a round where the selector is invoked and the filter result is
\* empty the session ends at once as aborted with no candidates: no guess is
\* reported, no feedback is requested, the constraint state is unchanged;
\* and that outcome is final, the run reports neither failed nor solved.
C13_AbortsAtOnce ==
    [][/\ EmptySelection =>
             /\ pc' = "done"
             /\ outcome' = "NoCandidates"
             /\ UNCHANGED <<guess, total_candidates, feedback, line, transcript,
                            green, yellow, gray, min_counts, remaining_rounds>>
       /\ outcome = "NoCandidates" => UNCHANGED vars
       /\ outcome' = "NoCandidates" => (outcome = "NoCandidates" \/ EmptySelection)]_vars

\* A session on a non-empty dictionary has ended with no candidates after a
\* round of the loop
C13_Witness ==
    /\ outcome = "NoCandidates"
    /\ pc = "done"
    /\ word_list # << >>
    /\ transcript # << >>
    /\ candidates = << >>

----------------------------------------------------------------------------
(* C14 *)

\* A round of a test-mode session has its guess and gets its feedback
OracleStep == pc = "feedback" /\ IsSome(test_answer)

\* C14: in oracle mode round k ends the session as solved in k if and only
\* if its guess is the hidden answer (the feedback is all Exact); in that
\* round the feedback is not applied to the constraint state; in every other
\* round the feedback is applied exactly once before the next round starts.
C14_SolvedIffAnswer ==
    [][/\ OracleStep =>
             /\ AllGreen(feedback') <=> guess = test_answer[1]
             /\ IF guess = test_answer[1]
                THEN /\ outcome' = "Solved"
                     /\ pc' = "done"
                     /\ guess_count' = round
                     /\ UNCHANGED <<green, yellow, gray, min_counts, transcript>>
                ELSE /\ outcome' = "running"
                     /\ pc' = "select"
                     /\ round' = round + 1
                     /\ [green |-> green', yellow |-> yellow', gray |-> gray',
                         min_counts |-> min_counts']
                          = apply_feedback(guess, generate_feedback(guess, test_answer[1]), State)
                     /\ transcript' = Append(transcript, <<guess, feedback'>>)
       /\ ~ OracleStep => UNCHANGED <<green, yellow, gray, min_counts, transcript>>
       /\ outcome' = "Solved" => (OracleStep /\ guess = test_answer[1])]_vars

\* A session solved in its second round, after a round that was not solved
C14_Witness ==
    /\ IsSome(test_answer)
    /\ outcome = "Solved"
    /\ guess_count = 2
    /\ Len(transcript) = 1
    /\ transcript[1][1] # test_answer[1]
    /\ guess = test_answer[1]

----------------------------------------------------------------------------
(* C15 *)

\* The step applies a (guess, feedback) pair and filters again
Application == pc = "core" /\ Len(transcript') = Len(transcript) + 1

\* The letters that are excluded outright: gray, without a minimum count
Banned == gray \ DOMAIN min_counts

\* C15 as stated: for every sequence of well-formed (guess, feedback) pairs
\* the candidates after an application are among the candidates before it.
C15_NeverGains ==
    [][Application => Words(candidates') \subseteq Words(candidates)]_vars

\* The application keeps what was known: it sets no fixed position to
\* another letter and gives no minimum count to a letter that was excluded
\* outright
KeepsKnowledge ==
    /\ \A i \in 1..WordLen : green[i] # None => green'[i] = green[i]
    /\ Banned \cap DOMAIN min_counts' = {}

\* C15 amended: the candidates after an application are among the
\* candidates before it (in the same order) whenever the application sets
\* no fixed position to another letter and gives no minimum count to a
\* letter that was excluded outright before it.
C15_GainsOnlyByRelease ==
    [][(Application /\ KeepsKnowledge) =>
          /\ Words(candidates') \subseteq Words(candidates)
          /\ IsSubsequence(candidates', candidates)]_vars

\* Two applications that each dropped candidates; the second one changed no
\* fixed position and gave no minimum count to a letter excluded outright; a
\* gray letter with a minimum count exists
C15_Witness ==
    /\ pc = "core"
    /\ Len(transcript) = 2
    /\ LET first == apply_feedback(transcript[1][1], transcript[1][2], EmptyState)
           before == filter_candidates(word_list, first)
       IN  /\ (first.gray \ DOMAIN first.min_counts) \cap DOMAIN min_counts = {}
           /\ \A i \in 1..WordLen : first.green[i] # None => green[i] = first.green[i]
           /\ \E i \in 1..WordLen : first.green[i] # None
           /\ first.gray \ DOMAIN first.min_counts # {}
           /\ Len(before) < Len(word_list)
           /\ Len(candidates) < Len(before)
    /\ candidates # << >>
    /\ gray \cap DOMAIN min_counts # {}

----------------------------------------------------------------------------
(* C16 *)

\* The hidden answer of a test-mode session
Answer == test_answer[1]

\* C16: in oracle mode, with the answer a word of the dictionary, the answer
\* satisfies the filter predicate for the accumulated state after any number
\* of rounds (it is among the candidates of every round), and the session
\* never ends with no candidates.
C16_AnswerSurvives ==
    /\ \E k \in 1..Len(word_list) : word_list[k] = Answer
    /\ Fixed(Answer) /\ Misplaced(Answer) /\ Excluded(Answer) /\ Minimums(Answer)
    /\ guess_count >= 1 => \E k \in 1..Len(candidates) : candidates[k] = Answer
    /\ outcome # "NoCandidates"

\* The third round of a session: the answer is a candidate, after two rounds
\* that left a gray letter with a minimum count (a repeated letter of a
\* guess) and a gray letter without one
C16_Witness ==
    /\ pc = "feedback"
    /\ Len(transcript) = 2
    /\ gray \cap DOMAIN min_counts # {}
    /\ gray \ DOMAIN min_counts # {}
    /\ \E k \in 1..Len(candidates) : candidates[k] = Answer
    /\ Len(candidates) < Len(word_list)

----------------------------------------------------------------------------
(* C17 *)

\* C17: in a consistent game a position of fixed that is set holds the
\* letter of the answer at that position, and it is never cleared and never
\* changed to another letter.
C17_FixedIsAnswer ==
    /\ [](\A i \in 1..WordLen : green[i] # None => green[i] = <<Answer[i]>>)
    /\ [][\A i \in 1..WordLen : green[i] # None => green'[i] = green[i]]_vars

\* After two rounds: a position fixed by the first round, another one fixed
\* by the second, and a position that is not fixed
C17_Witness ==
    /\ Len(transcript) = 2
    /\ \E i, j, k \in 1..WordLen :
          /\ transcript[1][2][i] = Green
          /\ transcript[1][2][j] # Green
          /\ transcript[2][2][j] = Green
          /\ green[i] # None /\ green[j] # None
          /\ green[k] = None

----------------------------------------------------------------------------
(* C18 *)

\* The number of positions of the guess of round k that hold letter c and
\* are marked Exact or Present
MarksInRound(k, c) == Cardinality(Marked(transcript[k][1], transcript[k][2], c))

\* The letters marked Exact or Present in some applied round
MarkedLetters ==
    {c \in UNION {Letters(transcript[k][1]) : k \in 1..Len(transcript)} :
        \E k \in 1..Len(transcript) : MarksInRound(k, c) > 0}

\* The largest of a letter's counts over the applied rounds
MaxMarks(c) ==
    CHOOSE m \in {MarksInRound(k, c) : k \in 1..Len(transcript)} :
        \A k \in 1..Len(transcript) : MarksInRound(k, c) <= m

\* C18: minCounts holds an entry exactly for the letters marked Exact or
\* Present in some applied round, and the entry is the maximum over the
\* rounds of the letter's marked positions in that round (not the sum); an
\* entry never decreases; a round where a letter has Absent marks only
\* neither creates nor changes its entry.
C18_MaxPerRound ==
    /\ [](pc = "core" =>
            /\ DOMAIN min_counts = MarkedLetters
            /\ \A c \in MarkedLetters : min_counts[c] = MaxMarks(c))
    /\ [][(\A c \in DOMAIN min_counts :
                c \in DOMAIN min_counts' /\ min_counts'[c] >= min_counts[c])
           /\ (Application =>
                \A c \in Letters(guess') :
                    Marked(guess', feedback', c) = {} =>
                        /\ c \in DOMAIN min_counts' <=> c \in DOMAIN min_counts
                        /\ c \in DOMAIN min_counts => min_counts'[c] = min_counts[c])]_vars

\* Two rounds: a letter marked at three positions in one and at one position
\* in the other (its entry is 3, not 4), and a letter with Absent marks only,
\* without an entry
C18_Witness ==
    /\ pc = "core"
    /\ Len(transcript) = 2
    /\ \E c \in DOMAIN min_counts :
          /\ {MarksInRound(1, c), MarksInRound(2, c)} = {1, 3}
          /\ min_counts[c] = 3
    /\ gray \ DOMAIN min_counts # {}

----------------------------------------------------------------------------
(* C19 *)

\* Word w satisfies the filter predicate for the accumulated state
Passes(w) == Fixed(w) /\ Misplaced(w) /\ Excluded(w) /\ Minimums(w)

\* C19: in oracle mode, after a round whose guess is not the answer the
\* guessed word no longer satisfies the filter predicate for the updated
\* state, and the solver never proposes the same word in two rounds of one
\* session.
C19_NoRepeatedGuess ==
    /\ \A k \in 1..Len(transcript) : ~ Passes(transcript[k][1])
    /\ pc = "feedback" => \A k \in 1..Len(transcript) : transcript[k][1] # guess

====
